---- MODULE Spec2Model ----
(***************************************************************************)
(* Model of the metlink-pid Page codec (PageAnimate, Page) and of the      *)
(* control frames (PingMessage, ResponseMessage).                          *)
(*                                                                         *)
(* A JavaScript string is a sequence of one-character strings; the glyphs  *)
(* outside ASCII are written by their code point ("U+2500").  A byte array *)
(* is a sequence of integers.  The value undefined inside an array (a      *)
(* hole left by Array(n), or a missing table entry) is Undefined.          *)
(***************************************************************************)
EXTENDS Integers, Sequences, FiniteSets

VARIABLES input, page, msg, last, statics, made

vars == << input, page, msg, last, statics, made >>

\* ------------------------------------------------------------------------
\* Bounds of the explored inputs
\* ------------------------------------------------------------------------
MaxTextLen == 3
MaxStrLen == 3
MaxBodyLen == 3
MaxEncLen == 3
MaxDecLen == 3
MaxFrameLen == 5

\* ------------------------------------------------------------------------
\* JavaScript values and primitives used by the code
\* ------------------------------------------------------------------------
\* the value undefined; no number the model handles is negative
Undefined == -1

\* all sequences over S of length at most n
SeqsUpTo(S, n) == UNION { [1..k -> S] : k \in 0..n }

\* the printable ASCII characters, in code order from 0x20 (the grave accent
\* is written by its code point)
Ascii ==
  << " ", "!", "\"", "#", "$", "%", "&", "'", "(", ")", "*", "+", ",", "-", ".", "/",
     "0", "1", "2", "3", "4", "5", "6", "7", "8", "9", ":", ";", "<", "=", ">", "?",
     "@", "A", "B", "C", "D", "E", "F", "G", "H", "I", "J", "K", "L", "M", "N", "O",
     "P", "Q", "R", "S", "T", "U", "V", "W", "X", "Y", "Z", "[", "\\", "]", "^", "_",
     "U+0060", "a", "b", "c", "d", "e", "f", "g", "h", "i", "j", "k", "l", "m", "n", "o",
     "p", "q", "r", "s", "t", "u", "v", "w", "x", "y", "z", "{", "|", "}", "~" >>

\* String.prototype.charCodeAt(0) of a printable ASCII character
charCodeAt(c) == 31 + (CHOOSE i \in 1..Len(Ascii) : Ascii[i] = c)

\* String.prototype.toUpperCase of a single character
toUpperCase(c) ==
  IF c \in { Ascii[i] : i \in 66..91 } THEN Ascii[charCodeAt(c) - 31 - 32] ELSE c

\* Buffer.from(array): every entry is coerced to an unsigned byte;
\* undefined becomes 0 and an integer is truncated to its low 8 bits
Uint8(v) == IF v = Undefined THEN 0 ELSE v % 256

BufferFrom(arr) == [ i \in 1..Len(arr) |-> Uint8(arr[i]) ]

\* the length property of a Set object: a Set has size, not length
SetLength(S) == Undefined

\* the relational operator x > y, where undefined compares as NaN
JsGreater(x, y) == IF x = Undefined THEN FALSE ELSE x > y

\* String.prototype.replace(pattern, replacement) with a string pattern:
\* only the first occurrence of the pattern is replaced
RECURSIVE ReplaceFirst(_, _, _)
ReplaceFirst(s, pat, rep) ==
  IF Len(s) < Len(pat) THEN s
  ELSE IF SubSeq(s, 1, Len(pat)) = pat
       THEN rep \o SubSeq(s, Len(pat) + 1, Len(s))
       ELSE << s[1] >> \o ReplaceFirst(Tail(s), pat, rep)

\* String.prototype.split(sep) with a one-character separator
RECURSIVE Split(_, _)
Split(s, sep) ==
  IF \A i \in 1..Len(s) : s[i] # sep THEN << s >>
  ELSE LET i == CHOOSE j \in 1..Len(s) :
                  s[j] = sep /\ \A h \in 1..(j - 1) : s[h] # sep
       IN << SubSeq(s, 1, i - 1) >> \o Split(SubSeq(s, i + 1, Len(s)), sep)

\* ------------------------------------------------------------------------
\* Errors.  An outcome carries the class of the thrown error, its message
\* template and the value interpolated into the message.
\* ------------------------------------------------------------------------
NoError == [class |-> "none", message |-> "", value |-> Undefined]

Throw(c, m, v) == [class |-> c, message |-> m, value |-> v]

\* ------------------------------------------------------------------------
\* PageAnimate
\* ------------------------------------------------------------------------
\* new PageAnimate(type): an animation is identified by its letter
PageAnimate(type) == toUpperCase(type)

NONE == PageAnimate("N")

VSCROLL == PageAnimate("V")

HSCROLL == PageAnimate("H")

\* ------------------------------------------------------------------------
\* Page: static tables
\* ------------------------------------------------------------------------
EncodeLiteral ==
  << " ", "!", "#", "$", "&", "'", "(", ")", "*", "+", ",", "-", ".", "/", "0", "1",
     "2", "3", "4", "5", "6", "7", "8", "9", ":", ";", "<", "=", ">", "?", "A", "B",
     "C", "D", "E", "F", "G", "H", "I", "J", "K", "L", "M", "N", "O", "P", "Q", "R",
     "S", "T", "U", "V", "W", "X", "Y", "Z", "\\", "a", "b", "c", "d", "e", "f", "g",
     "h", "i", "j", "k", "l", "m", "n", "o", "p", "q", "r", "s", "t", "u", "v", "w",
     "x", "y", "z" >>

Glyphs == { "U+00B7", "U+2022", "U+2500", "U+2501", "U+2588", "U+2594" }

\* the glyph table with the light horizontal line on its alternate byte
GlyphByte_LightHorizontalAlt(c) ==
  CASE c = "U+00B7" -> 143
    [] c = "U+2022" -> 211
    [] c = "U+2500" -> 152
    [] c = "U+2501" -> 210
    [] c = "U+2588" -> 95
    [] c = "U+2594" -> 163

GlyphByte(c) ==
  CASE c = "U+00B7" -> 143
    [] c = "U+2022" -> 211
    [] c = "U+2500" -> 151
    [] c = "U+2501" -> 210
    [] c = "U+2588" -> 95
    [] c = "U+2594" -> 163

TEXT_ENCODING ==
  [ c \in { EncodeLiteral[i] : i \in 1..Len(EncodeLiteral) } \cup Glyphs |->
      IF c \in Glyphs THEN GlyphByte(c) ELSE charCodeAt(c) ]

TEXT_DECODING ==
  [ b \in { TEXT_ENCODING[c] : c \in DOMAIN TEXT_ENCODING } \cup { 152, 164, 165 } |->
      CASE b = 152 -> "U+2500"
        [] b = 164 -> "U+2594"
        [] b = 165 -> "U+2594"
        [] OTHER -> CHOOSE c \in DOMAIN TEXT_ENCODING : TEXT_ENCODING[c] = b ]

ATTRS_SEP == "^"

RIGHT_CHAR_DECODED == << "~" >>

RIGHT_CHAR_ENCODED == << "\\", "R" >>

NEWLINE_CHAR == "_"

NEWLINE_BYTESEQ == 10

ANIMATE_ENCODING == [ a \in { NONE, VSCROLL, HSCROLL } |->
                        CASE a = NONE -> 0 [] a = VSCROLL -> 29 [] a = HSCROLL -> 47 ]

ANIMATE_DECODING ==
  [ b \in { ANIMATE_ENCODING[a] : a \in DOMAIN ANIMATE_ENCODING } |->
      CHOOSE a \in DOMAIN ANIMATE_ENCODING : ANIMATE_ENCODING[a] = b ]

\* ------------------------------------------------------------------------
\* Page.encodeText / Page.decodeText
\* ------------------------------------------------------------------------
\* the bytesOut array after the loop: a hole stays where a character is not
\* a key of the table
EncodeBytesOut(text) ==
  [ i \in 1..Len(text) |->
      IF text[i] \in DOMAIN TEXT_ENCODING THEN TEXT_ENCODING[text[i]] ELSE Undefined ]

\* the badChars set after the loop
EncodeBadChars(text) ==
  { text[i] : i \in { j \in 1..Len(text) : text[j] \notin DOMAIN TEXT_ENCODING } }

\* badChars.entries() is an iterator and has no join method, so the throw
\* statement, if it were ever reached, would raise a TypeError
encodeText(text) ==
  IF JsGreater(SetLength(EncodeBadChars(text)), 0)
  THEN [err |-> Throw("TypeError", "badChars.entries(...).join is not a function", Undefined),
        value |-> << >>]
  ELSE [err |-> NoError, value |-> EncodeBytesOut(text)]

\* decodeText leaving out the bytes that are not keys of the table
decodeText_SkipUnmapped(bytes) ==
  LET known == SelectSeq(bytes, LAMBDA b : b \in DOMAIN TEXT_DECODING)
  IN [ i \in 1..Len(known) |-> TEXT_DECODING[known[i]] ]

decodeText(bytes) ==
  [ i \in 1..Len(bytes) |->
      IF bytes[i] \in DOMAIN TEXT_DECODING THEN TEXT_DECODING[bytes[i]] ELSE "U+FFFD" ]

\* ------------------------------------------------------------------------
\* Page: construction and the textual grammar
\* ------------------------------------------------------------------------
\* new Page(animate, delay, text): the three private fields, stored as given
Page(animate, delay, text) == [animate |-> animate, delay |-> delay, text |-> text]

IsLetter(c) == c \in { Ascii[i] : i \in (34..59) \cup (66..91) }

IsDigit(c) == c \in { Ascii[i] : i \in 17..26 }

\* the length of the longest run of decimal digits of s starting at index i
RECURSIVE DigitRun(_, _)
DigitRun(s, i) ==
  IF i <= Len(s) /\ IsDigit(s[i]) THEN 1 + DigitRun(s, i + 1) ELSE 0

\* string.match(_STR_RE).groups for
\*   /^(?:(?<animate>[A-Za-z]?)(?<delay>\d*)\^)?(?<text>.*)$/s
\* Both quantifiers of the prefix are greedy and no shorter choice can make
\* the prefix match when the greedy one does not, so there is at most one
\* way for the optional prefix to take part; when it does not, the groups
\* animate and delay are undefined (prefix = FALSE) and text is the input.
MatchStrRe(s) ==
  LET nl == IF Len(s) > 0 /\ IsLetter(s[1]) THEN 1 ELSE 0
      nd == DigitRun(s, nl + 1)
      sep == nl + nd + 1
  IN IF sep <= Len(s) /\ s[sep] = ATTRS_SEP
     THEN [prefix |-> TRUE,
           animate |-> SubSeq(s, 1, nl),
           delay |-> SubSeq(s, nl + 1, nl + nd),
           text |-> SubSeq(s, sep + 1, Len(s))]
     ELSE [prefix |-> FALSE, animate |-> << >>, delay |-> << >>, text |-> s]

\* parseInt of a non-empty run of decimal digits
RECURSIVE parseInt(_)
parseInt(digits) ==
  IF digits = << >> THEN 0
  ELSE 10 * parseInt(SubSeq(digits, 1, Len(digits) - 1))
       + (charCodeAt(digits[Len(digits)]) - 48)

\* the string a non-negative integer is converted to by string concatenation
RECURSIVE NumberToString(_)
NumberToString(n) ==
  IF n < 10 THEN << Ascii[17 + n] >>
  ELSE NumberToString(n \div 10) \o << Ascii[17 + (n % 10)] >>

\* fromStr testing the delay group for undefined only: an empty digit run
\* is then parsed, and yields zero
fromStr_EmptyDelayIsZero(string, default_animate, default_delay) ==
  LET groups == MatchStrRe(string)
      animate == IF groups.prefix /\ groups.animate # << >>
                 THEN PageAnimate(groups.animate[1]) ELSE default_animate
      delay == IF groups.prefix THEN parseInt(groups.delay) ELSE default_delay
  IN Page(animate, delay, groups.text)

\* Page.fromStr(string, default_animate, default_delay); an undefined or
\* empty group is falsy and leaves the default in place
fromStr(string, default_animate, default_delay) ==
  LET groups == MatchStrRe(string)
      animate == IF groups.prefix /\ groups.animate # << >>
                 THEN PageAnimate(groups.animate[1]) ELSE default_animate
      delay == IF groups.prefix /\ groups.delay # << >>
               THEN parseInt(groups.delay) ELSE default_delay
  IN Page(animate, delay, groups.text)

\* toString leaving out a delay that equals the default of fromStr
toString_OmitDefaultDelay(p) ==
  << p.animate >> \o (IF p.delay = 20 THEN << >> ELSE NumberToString(p.delay))
    \o << ATTRS_SEP >> \o p.text

\* Page.prototype.toString
toString(p) == << p.animate >> \o NumberToString(p.delay) \o << ATTRS_SEP >> \o p.text

\* ------------------------------------------------------------------------
\* Page: the byte layout
\* ------------------------------------------------------------------------
\* the length of the match of /^(_+)/, or 0 when there is no match
RECURSIVE OffsetByte(_)
OffsetByte(text) ==
  IF text # << >> /\ text[1] = NEWLINE_CHAR THEN 1 + OffsetByte(Tail(text)) ELSE 0

\* lines.map(encodeText of the escaped line): the per-line outcomes
EncodedLines(lines) ==
  [ i \in 1..Len(lines) |->
      encodeText(ReplaceFirst(lines[i], RIGHT_CHAR_DECODED, RIGHT_CHAR_ENCODED)) ]

\* .reduce((acc, e) => [...acc, 0x0A, ...e], [])
RECURSIVE ReduceLines(_)
ReduceLines(arrs) ==
  IF arrs = << >> THEN << >>
  ELSE ReduceLines(SubSeq(arrs, 1, Len(arrs) - 1))
       \o << NEWLINE_BYTESEQ >> \o arrs[Len(arrs)]

\* Slice1 without the slice: the separator put before the first line stays
Slice1_KeepAll(arr) == arr

\* Array.prototype.slice(1)
Slice1(arr) == SubSeq(arr, 2, Len(arr))

\* Page.prototype.toBytes; an error thrown by encodeText propagates
toBytes(p) ==
  LET animateByte == IF p.animate \in DOMAIN ANIMATE_ENCODING
                     THEN ANIMATE_ENCODING[p.animate] ELSE Undefined
      offsetByte == OffsetByte(p.text)
      delayByte == p.delay
      lines == Split(SubSeq(p.text, offsetByte + 1, Len(p.text)), NEWLINE_CHAR)
      enc == EncodedLines(lines)
      thrown == { i \in 1..Len(enc) : enc[i].err # NoError }
      textBytes == Slice1(ReduceLines([ i \in 1..Len(enc) |-> enc[i].value ]))
  IN IF thrown # {}
     THEN [err |-> enc[CHOOSE i \in thrown : \A j \in thrown : i <= j].err,
           value |-> << >>]
     ELSE [err |-> NoError,
           value |-> BufferFrom(<< animateByte, offsetByte, delayByte, 0 >> \o textBytes)]

\* while (rawText[rawText.length - 1] === 0x0A) rawText.pop()
RECURSIVE RightTrim(_)
RightTrim(rawText) ==
  IF rawText # << >> /\ rawText[Len(rawText)] = NEWLINE_BYTESEQ
  THEN RightTrim(SubSeq(rawText, 1, Len(rawText) - 1))
  ELSE rawText

\* the number of spaces at the end of s
RECURSIVE TrailingSpaces(_)
TrailingSpaces(s) ==
  IF s # << >> /\ s[Len(s)] = " "
  THEN 1 + TrailingSpaces(SubSeq(s, 1, Len(s) - 1)) ELSE 0

\* String(undefined)
UndefinedString == << "u", "n", "d", "e", "f", "i", "n", "e", "d" >>

\* decoded.replace(/ +$/): the call passes no replacement, so the matched
\* run of trailing spaces is replaced by the string form of undefined
ReplaceTrailingSpaces(s) ==
  LET n == TrailingSpaces(s)
  IN IF n = 0 THEN s ELSE SubSeq(s, 1, Len(s) - n) \o UndefinedString

\* Array(offset).fill('_').join('')
Fill(n, c) == [ i \in 1..n |-> c ]

\* Array.prototype.join(sep) over strings
RECURSIVE Join(_, _)
Join(strs, sep) ==
  IF strs = << >> THEN << >>
  ELSE IF Len(strs) = 1 THEN strs[1]
  ELSE strs[1] \o << sep >> \o Join(Tail(strs), sep)

\* the text rebuilt by Page.fromBytes from the offset byte and the bytes
\* after the header
FromBytesText(bytes) ==
  LET offset == bytes[2]
      rawText == RightTrim(SubSeq(bytes, 5, Len(bytes)))
      lines == Split(rawText, NEWLINE_BYTESEQ)
  IN Fill(offset, NEWLINE_CHAR) \o
     Join([ i \in 1..Len(lines) |->
              ReplaceFirst(ReplaceTrailingSpaces(decodeText(lines[i])),
                           RIGHT_CHAR_ENCODED, RIGHT_CHAR_DECODED) ],
          NEWLINE_CHAR)

\* fromBytes looking at the animate byte before the length
fromBytes_AnimateFirst(bytes) ==
  IF Len(bytes) > 0 /\ bytes[1] \notin DOMAIN ANIMATE_DECODING
  THEN [err |-> Throw("RangeError", "Unexpected animate byte value at index 0", bytes[1]),
        value |-> Page("", 0, << >>)]
  ELSE IF Len(bytes) < 4
  THEN [err |-> Throw("RangeError", "Not enough bytes for a Page", Undefined),
        value |-> Page("", 0, << >>)]
  ELSE IF bytes[4] # 0
  THEN [err |-> Throw("ReferenceError", "bytes_in is not defined", Undefined),
        value |-> Page("", 0, << >>)]
  ELSE [err |-> NoError,
        value |-> Page(ANIMATE_DECODING[bytes[1]], bytes[3], FromBytesText(bytes))]

\* Page.fromBytes(bytes).  The message of the reserved-byte error reads the
\* undeclared name bytes_in, so evaluating it raises a ReferenceError
\* before the RangeError is constructed.  The animate of the Page is the
\* letter stored in the decoding table.
fromBytes(bytes) ==
  IF Len(bytes) < 4
  THEN [err |-> Throw("RangeError", "Not enough bytes for a Page", Undefined),
        value |-> Page("", 0, << >>)]
  ELSE IF bytes[1] \notin DOMAIN ANIMATE_DECODING
  THEN [err |-> Throw("RangeError", "Unexpected animate byte value at index 0", bytes[1]),
        value |-> Page("", 0, << >>)]
  ELSE IF bytes[4] # 0
  THEN [err |-> Throw("ReferenceError", "bytes_in is not defined", Undefined),
        value |-> Page("", 0, << >>)]
  ELSE [err |-> NoError,
        value |-> Page(ANIMATE_DECODING[bytes[1]], bytes[3], FromBytesText(bytes))]

\* ------------------------------------------------------------------------
\* PingMessage and ResponseMessage
\* ------------------------------------------------------------------------
\* new PingMessage(unspecified_byte, address)
PingMessage(unspecified_byte, address) ==
  [class |-> "PingMessage", unspecified_byte |-> unspecified_byte, address |-> address]

PingMessage_marker(address) == << address, 80 >>

\* PingMessage.fromBytes without the upper length check
PingMessage_fromBytes_NoUpper(bytes, address) ==
  IF Len(bytes) < 3
  THEN [err |-> Throw("RangeError", "Unexpected end of data", Undefined),
        value |-> PingMessage(0, 0)]
  ELSE LET expectedMarker == PingMessage_marker(address)
       IN IF ~(bytes[1] = expectedMarker[1] /\ bytes[2] = expectedMarker[2])
          THEN [err |-> Throw("RangeError", "Incorrect header for PingMessage", Undefined),
                value |-> PingMessage(0, 0)]
          ELSE [err |-> NoError, value |-> PingMessage(bytes[3], address)]

PingMessage_fromBytes(bytes, address) ==
  IF Len(bytes) < 3
  THEN [err |-> Throw("RangeError", "Unexpected end of data", Undefined),
        value |-> PingMessage(0, 0)]
  ELSE IF Len(bytes) > 3
  THEN [err |-> Throw("RangeError", "Unexpected data", Undefined),
        value |-> PingMessage(0, 0)]
  ELSE LET expectedMarker == PingMessage_marker(address)
       IN IF ~(bytes[1] = expectedMarker[1] /\ bytes[2] = expectedMarker[2])
          THEN [err |-> Throw("RangeError", "Incorrect header for PingMessage", Undefined),
                value |-> PingMessage(0, 0)]
          ELSE [err |-> NoError, value |-> PingMessage(bytes[3], address)]

PingMessage_toBytes(m) == PingMessage_marker(m.address) \o << m.unspecified_byte >>

\* new ResponseMessage(unspecified_byte, address)
ResponseMessage(unspecified_byte, address) ==
  [class |-> "ResponseMessage", unspecified_byte |-> unspecified_byte, address |-> address]

\* the acknowledgement marker with the type code of the keep-alive
ResponseMessage_marker_PingCode(address) == << address, 80 >>

ResponseMessage_marker(address) == << address, 82 >>

\* ResponseMessage.fromBytes without the reserved byte check
ResponseMessage_fromBytes_NoReserved(bytes, address) ==
  IF Len(bytes) < 4
  THEN [err |-> Throw("RangeError", "Unexpected end of data", Undefined),
        value |-> ResponseMessage(0, 0)]
  ELSE IF Len(bytes) > 4
  THEN [err |-> Throw("RangeError", "Unexpected data", Undefined),
        value |-> ResponseMessage(0, 0)]
  ELSE LET expectedMarker == ResponseMessage_marker(address)
       IN IF ~(bytes[1] = expectedMarker[1] /\ bytes[2] = expectedMarker[2])
          THEN [err |-> Throw("RangeError", "Incorrect header for ResponseMessage", Undefined),
                value |-> ResponseMessage(0, 0)]
          ELSE [err |-> NoError, value |-> ResponseMessage(bytes[3], address)]

ResponseMessage_fromBytes(bytes, address) ==
  IF Len(bytes) < 4
  THEN [err |-> Throw("RangeError", "Unexpected end of data", Undefined),
        value |-> ResponseMessage(0, 0)]
  ELSE IF Len(bytes) > 4
  THEN [err |-> Throw("RangeError", "Unexpected data", Undefined),
        value |-> ResponseMessage(0, 0)]
  ELSE LET expectedMarker == ResponseMessage_marker(address)
       IN IF ~(bytes[1] = expectedMarker[1] /\ bytes[2] = expectedMarker[2])
          THEN [err |-> Throw("RangeError", "Incorrect header for ResponseMessage", Undefined),
                value |-> ResponseMessage(0, 0)]
          ELSE IF bytes[4] # 0
          THEN [err |-> Throw("RangeError", "Unexpected value at position 3", bytes[4]),
                value |-> ResponseMessage(0, 0)]
          ELSE [err |-> NoError, value |-> ResponseMessage(bytes[3], address)]

ResponseMessage_toBytes(m) ==
  ResponseMessage_marker(m.address) \o << m.unspecified_byte, 0 >>

\* ------------------------------------------------------------------------
\* Inputs explored
\* ------------------------------------------------------------------------
\* animations handed to the Page constructor: the three constants and one
\* PageAnimate built from another letter
Animates == { NONE, VSCROLL, HSCROLL, PageAnimate("x") }

Delays == { 0, 255, 256 }

TextChars == { "R", " ", "~", "_", "\\" }

Texts == SeqsUpTo(TextChars, MaxTextLen)

StrChars == { "V", "h", "x", "0", "9", "^", "\n" }

Strings == SeqsUpTo(StrChars, MaxStrLen)

DefaultAnimates == { NONE, HSCROLL }

DefaultDelays == { 20, 7 }

\* received page bytes: every short sequence, and every header followed by
\* a body
HeaderBytes == { 0, 29, 7 }

OffsetBytes == { 0, 2 }

DelayBytes == { 35 }

ReservedBytes == { 0, 1 }

BodyBytes == { 10, 32, 92, 82, 7 }

PageBytes ==
  SeqsUpTo(HeaderBytes, 3) \cup
  { << a, o, d, r >> \o body :
      a \in HeaderBytes, o \in OffsetBytes, d \in DelayBytes, r \in ReservedBytes,
      body \in SeqsUpTo(BodyBytes, MaxBodyLen) }

EncChars == { "R", " ", "~", "%", "U+2500" }

\* every character of the ASCII range, the six glyphs and the replacement
\* character, each as a text of one character
SingleChars == { Ascii[i] : i \in 1..Len(Ascii) } \cup Glyphs \cup { "U+FFFD" }

EncTexts == SeqsUpTo(EncChars, MaxEncLen) \cup { << c >> : c \in SingleChars }

DecBytes == { 82, 32, 151, 152, 164, 7 }

\* every byte value, each as a sequence of one byte
SingleBytes == 0..255

DecByteSeqs == SeqsUpTo(DecBytes, MaxDecLen) \cup { << b >> : b \in SingleBytes }

Addresses == { 1, 2 }

FrameBytes == { 1, 80, 82, 0 }

Frames == SeqsUpTo(FrameBytes, MaxFrameLen)

\* the calls of a session that makes one call after another
SessionInputs ==
  { [call |-> "new Page", animate |-> HSCROLL, delay |-> 0, text |-> << "_", "~", "R" >>],
    [call |-> "new Page", animate |-> PageAnimate("x"), delay |-> 256, text |-> << "R" >>],
    [call |-> "fromStr", string |-> << "V", "9", "^", "h" >>,
     default_animate |-> NONE, default_delay |-> 20],
    [call |-> "fromBytes", bytes |-> << 0, 2, 35, 0, 82, 32 >>],
    [call |-> "fromBytes", bytes |-> << 7, 0, 35 >>],
    [call |-> "encodeText", text |-> << "R", "~" >>],
    [call |-> "decodeText", bytes |-> << 82, 7, 152 >>],
    [call |-> "new PingMessage", unspecified_byte |-> 0, address |-> 1],
    [call |-> "new ResponseMessage", unspecified_byte |-> 0, address |-> 2],
    [call |-> "PingMessage.fromBytes", bytes |-> << 1, 80, 0 >>, address |-> 1],
    [call |-> "ResponseMessage.fromBytes", bytes |-> << 1, 82, 0, 0 >>, address |-> 1] }

\* the calls a session may start with
PageInputs ==
  { [call |-> "new Page", animate |-> a, delay |-> d, text |-> t] :
      a \in Animates, d \in Delays, t \in Texts } \cup
  { [call |-> "fromStr", string |-> s, default_animate |-> da, default_delay |-> dd] :
      s \in Strings, da \in DefaultAnimates, dd \in DefaultDelays } \cup
  { [call |-> "fromBytes", bytes |-> b] : b \in PageBytes }

CodecInputs ==
  { [call |-> "encodeText", text |-> t] : t \in EncTexts } \cup
  { [call |-> "decodeText", bytes |-> b] : b \in DecByteSeqs }

FrameInputs ==
  { [call |-> c, unspecified_byte |-> b, address |-> a] :
      c \in { "new PingMessage", "new ResponseMessage" },
      b \in FrameBytes, a \in Addresses } \cup
  { [call |-> c, bytes |-> f, address |-> a] :
      c \in { "PingMessage.fromBytes", "ResponseMessage.fromBytes" },
      f \in Frames, a \in Addresses }

\* ------------------------------------------------------------------------
\* State.  input is the call the caller starts with and its arguments; page
\* holds the Page returned by the last constructing call (no Page when that
\* call threw), msg the message returned by the last frame call, and last
\* the record of the last call: its name, arguments and outcome.  statics
\* holds the four static tables of the class Page, which are ordinary
\* writable properties, and made the values the constructor of the Page in
\* page was called with.  The operators above read the tables through the
\* definitions statics starts from.
\* ------------------------------------------------------------------------
\* the static fields of Page after the class body has run
PageStatics ==
  [ _TEXT_ENCODING |-> TEXT_ENCODING,
    _TEXT_DECODING |-> TEXT_DECODING,
    _ANIMATE_ENCODING |-> ANIMATE_ENCODING,
    _ANIMATE_DECODING |-> ANIMATE_DECODING ]

Idle ==
  /\ page = {}
  /\ msg = {}
  /\ last = [op |-> "init"]
  /\ statics = PageStatics
  /\ made = {}

Init == input \in PageInputs /\ Idle

InitCodec == input \in CodecInputs /\ Idle

InitFrame == input \in FrameInputs /\ Idle

\* new Page(animate, delay, text)
Construct ==
  /\ input.call = "new Page"
  /\ page' = { Page(input.animate, input.delay, input.text) }
  /\ made' = { [animate |-> input.animate, delay |-> input.delay, text |-> input.text] }
  /\ last' = [op |-> "new Page"]
  /\ UNCHANGED << input, msg, statics >>

\* Page.fromStr(string, default_animate, default_delay); src is the Page
\* whose toString produced the string, if any
CallFromStr(string, default_animate, default_delay, src) ==
  /\ page' = { fromStr(string, default_animate, default_delay) }
  /\ made' = page'
  /\ last' = [op |-> "fromStr", string |-> string, default_animate |-> default_animate,
              default_delay |-> default_delay, src |-> src]
  /\ UNCHANGED << input, msg, statics >>

FromStr ==
  /\ input.call = "fromStr"
  /\ CallFromStr(input.string, input.default_animate, input.default_delay, {})

\* page.toString()
ToStr ==
  /\ \E p \in page :
       last' = [op |-> "toString", recv |-> p, out |-> toString(p)]
  /\ UNCHANGED << input, page, msg, statics, made >>

\* Page.fromStr(page.toString(), default_animate, default_delay)
Reparse ==
  /\ last.op = "toString"
  /\ \E da \in DefaultAnimates, dd \in DefaultDelays :
       CallFromStr(last.out, da, dd, { last.recv })

\* page.toBytes() that also cuts the leading markers it counted off the text
\* of the Page
ToBytes_ConsumesText ==
  /\ \E p \in page :
       LET r == toBytes(p)
       IN /\ last' = [op |-> "toBytes", recv |-> p, err |-> r.err, out |-> r.value]
          /\ page' = { [p EXCEPT !.text = SubSeq(p.text, OffsetByte(p.text) + 1,
                                                  Len(p.text))] }
  /\ UNCHANGED << input, msg, statics, made >>

\* page.toBytes()
ToBytes ==
  /\ \E p \in page :
       LET r == toBytes(p)
       IN last' = [op |-> "toBytes", recv |-> p, err |-> r.err, out |-> r.value]
  /\ UNCHANGED << input, page, msg, statics, made >>

\* Page.fromBytes(bytes); src is the Page whose toBytes produced the bytes,
\* if any
CallFromBytes(bytes, src) ==
  LET r == fromBytes(bytes)
  IN /\ page' = IF r.err = NoError THEN { r.value } ELSE {}
     /\ made' = page'
     /\ last' = [op |-> "fromBytes", bytes |-> bytes, src |-> src, err |-> r.err]
     /\ UNCHANGED << input, msg, statics >>

FromBytes ==
  /\ input.call = "fromBytes"
  /\ CallFromBytes(input.bytes, {})

\* Page.fromBytes(page.toBytes())
ReadBack ==
  /\ last.op = "toBytes"
  /\ last.err = NoError
  /\ CallFromBytes(last.out, { last.recv })

\* Page.encodeText(text); src is the byte sequence whose decodeText produced
\* the text, if any
CallEncodeText(text, src) ==
  /\ LET r == encodeText(text)
     IN last' = [op |-> "encodeText", text |-> text, src |-> src,
                 err |-> r.err, out |-> r.value]
  /\ UNCHANGED << input, page, msg, statics, made >>

EncodeText ==
  /\ input.call = "encodeText"
  /\ CallEncodeText(input.text, {})

\* Page.decodeText(bytes); src is the text whose encodeText produced the
\* bytes, if any
CallDecodeText(bytes, src) ==
  /\ last' = [op |-> "decodeText", bytes |-> bytes, src |-> src, err |-> NoError,
              out |-> decodeText(bytes)]
  /\ UNCHANGED << input, page, msg, statics, made >>

DecodeText ==
  /\ input.call = "decodeText"
  /\ CallDecodeText(input.bytes, {})

\* Page.decodeText(Page.encodeText(text))
DecodeBack ==
  /\ last.op = "encodeText"
  /\ last.err = NoError
  /\ last.src = {}
  /\ CallDecodeText(last.out, { last.text })

\* Page.encodeText(Page.decodeText(bytes))
EncodeBack ==
  /\ last.op = "decodeText"
  /\ last.src = {}
  /\ CallEncodeText(last.out, { last.bytes })

\* new PingMessage(unspecified_byte, address)
NewPing ==
  /\ input.call = "new PingMessage"
  /\ msg' = { PingMessage(input.unspecified_byte, input.address) }
  /\ last' = [op |-> "new PingMessage"]
  /\ UNCHANGED << input, page, statics, made >>

\* PingMessage.fromBytes(bytes, address); before is the outcome of the other
\* parser on the same bytes and address, if it was tried first
CallPingFromBytes(bytes, address, before) ==
  /\ LET r == PingMessage_fromBytes(bytes, address)
     IN /\ msg' = IF r.err = NoError THEN { r.value } ELSE {}
        /\ last' = [op |-> "PingMessage.fromBytes", bytes |-> bytes,
                    address |-> address, err |-> r.err, before |-> before,
                    parsed |-> IF r.err = NoError THEN { bytes } ELSE {}]
  /\ UNCHANGED << input, page, statics, made >>

PingFromBytes ==
  /\ input.call = "PingMessage.fromBytes"
  /\ CallPingFromBytes(input.bytes, input.address, {})

\* a receiver that tried ResponseMessage.fromBytes tries
\* PingMessage.fromBytes on the same bytes and address
PingAfterResponse ==
  /\ last.op = "ResponseMessage.fromBytes"
  /\ last.before = {}
  /\ CallPingFromBytes(last.bytes, last.address, { last.err })

\* the byte sequence the held message was parsed from, when the last call
\* is the one that parsed it or a toBytes of it
ParsedFrom ==
  IF last.op \in { "PingMessage.fromBytes", "PingMessage.toBytes",
                   "ResponseMessage.fromBytes", "ResponseMessage.toBytes" }
  THEN last.parsed ELSE {}

\* message.toBytes() on a PingMessage; parsed is the byte sequence the
\* message was parsed from, if it was parsed
PingToBytes ==
  /\ \E m \in msg :
       /\ m.class = "PingMessage"
       /\ last' = [op |-> "PingMessage.toBytes", recv |-> m, parsed |-> ParsedFrom,
                   out |-> PingMessage_toBytes(m)]
  /\ UNCHANGED << input, page, msg, statics, made >>

\* new ResponseMessage(unspecified_byte, address)
NewResponse ==
  /\ input.call = "new ResponseMessage"
  /\ msg' = { ResponseMessage(input.unspecified_byte, input.address) }
  /\ last' = [op |-> "new ResponseMessage"]
  /\ UNCHANGED << input, page, statics, made >>

\* ResponseMessage.fromBytes(bytes, address); before is the outcome of the
\* other parser on the same bytes and address, if it was tried first
CallResponseFromBytes(bytes, address, before) ==
  /\ LET r == ResponseMessage_fromBytes(bytes, address)
     IN /\ msg' = IF r.err = NoError THEN { r.value } ELSE {}
        /\ last' = [op |-> "ResponseMessage.fromBytes", bytes |-> bytes,
                    address |-> address, err |-> r.err, before |-> before,
                    parsed |-> IF r.err = NoError THEN { bytes } ELSE {}]
  /\ UNCHANGED << input, page, statics, made >>

ResponseFromBytes ==
  /\ input.call = "ResponseMessage.fromBytes"
  /\ CallResponseFromBytes(input.bytes, input.address, {})

\* a receiver that tried PingMessage.fromBytes tries
\* ResponseMessage.fromBytes on the same bytes and address
ResponseAfterPing ==
  /\ last.op = "PingMessage.fromBytes"
  /\ last.before = {}
  /\ CallResponseFromBytes(last.bytes, last.address, { last.err })

\* message.toBytes() on a ResponseMessage
ResponseToBytes ==
  /\ \E m \in msg :
       /\ m.class = "ResponseMessage"
       /\ last' = [op |-> "ResponseMessage.toBytes", recv |-> m, parsed |-> ParsedFrom,
                   out |-> ResponseMessage_toBytes(m)]
  /\ UNCHANGED << input, page, msg, statics, made >>

\* the Page grammar and byte codec
Next ==
  \/ Construct
  \/ FromStr
  \/ ToStr
  \/ Reparse
  \/ ToBytes
  \/ FromBytes
  \/ ReadBack

Spec == Init /\ [][Next]_vars

\* the character codec
NextCodec ==
  \/ EncodeText
  \/ DecodeText
  \/ DecodeBack
  \/ EncodeBack

SpecCodec == InitCodec /\ [][NextCodec]_vars

\* the control frames
NextFrame ==
  \/ NewPing
  \/ PingFromBytes
  \/ PingAfterResponse
  \/ PingToBytes
  \/ NewResponse
  \/ ResponseFromBytes
  \/ ResponseAfterPing
  \/ ResponseToBytes

SpecFrame == InitFrame /\ [][NextFrame]_vars

\* a session of any number of calls, of all three families
InitSession == input \in SessionInputs /\ Idle

\* the caller turns to its next call
NextCall ==
  /\ input' \in SessionInputs
  /\ UNCHANGED << page, msg, last, statics, made >>

NextSession ==
  \/ NextCall
  \/ Construct
  \/ FromStr
  \/ ToStr
  \/ Reparse
  \/ ToBytes
  \/ FromBytes
  \/ ReadBack
  \/ EncodeText
  \/ DecodeText
  \/ DecodeBack
  \/ EncodeBack
  \/ NewPing
  \/ PingFromBytes
  \/ PingAfterResponse
  \/ PingToBytes
  \/ NewResponse
  \/ ResponseFromBytes
  \/ ResponseAfterPing
  \/ ResponseToBytes

SpecSession == InitSession /\ [][NextSession]_vars

\* ------------------------------------------------------------------------
\* Properties
\* ------------------------------------------------------------------------
\* the characters a Page text may hold
PermittedChars == DOMAIN TEXT_ENCODING

\* a Page within the documented bounds
ValidPage(p) ==
  /\ p.animate \in { "N", "V", "H" }
  /\ p.delay \in 0..255
  /\ \A i \in 1..Len(p.text) : p.text[i] \in PermittedChars \cup { "~", "_" }

\* the error kinds of the specification, as the code raises them
TruncatedFrame == Throw("RangeError", "Not enough bytes for a Page", Undefined)

UnknownAnimationByte(b) ==
  Throw("RangeError", "Unexpected animate byte value at index 0", b)

MalformedReservedByte(b) == Throw("RangeError", "unexpected byte value at index 3", b)

UnsupportedCharacter(chars) == Throw("RangeError", "not in allowed characters", chars)

FrameMismatch(class) ==
  { Throw("RangeError", "Unexpected end of data", Undefined),
    Throw("RangeError", "Unexpected data", Undefined),
    Throw("RangeError", "Incorrect header for " \o class, Undefined) }

MalformedResponseReservedByte(b) ==
  Throw("RangeError", "Unexpected value at position 3", b)

\* C1: for every valid Page p, Page.fromBytes(p.toBytes()) succeeds and
\* returns a Page with the animation, delay and text of p.
C1_RoundTripIdentity ==
  (last.op = "fromBytes" /\ last.src # {} /\ \A p \in last.src : ValidPage(p))
    => (last.err = NoError /\ page = last.src)

\* C2: Page.encodeText(text) fails with UnsupportedCharacter, naming every
\* distinct offending character, whenever some character of text is not a key
\* of the encode table, and returns bytes only when every character is one.
C2_EncodeTextStrict ==
  last.op = "encodeText" =>
    LET bad == { last.text[i] : i \in { j \in 1..Len(last.text) :
                                         last.text[j] \notin PermittedChars } }
    IN /\ bad # {} => /\ last.err.class = "RangeError"
                      /\ last.err = UnsupportedCharacter(bad)
       /\ last.err = NoError => bad = {}

\* the protocol byte of an animation
ProtocolByte(a) == CASE a = "N" -> 0 [] a = "V" -> 29 [] a = "H" -> 47

\* the number of consecutive line-advance markers at the very start of text
LeadingMarkers(text) ==
  CHOOSE k \in 0..Len(text) :
    /\ \A i \in 1..k : text[i] = "_"
    /\ k < Len(text) => text[k + 1] # "_"

MarkerPositions(s) == { i \in 1..Len(s) : s[i] = "_" }

LineCount(s) == Cardinality(MarkerPositions(s)) + 1

\* the position of the n-th marker of s; position 0 stands before the first
\* line and position Len(s) + 1 after the last one
NthMarker(s, n) ==
  IF n = 0 THEN 0
  ELSE IF n = LineCount(s) THEN Len(s) + 1
  ELSE CHOOSE q \in MarkerPositions(s) :
         Cardinality({ r \in MarkerPositions(s) : r < q }) = n - 1

\* the i-th of the lines s splits into on the marker
LineAt(s, i) == SubSeq(s, NthMarker(s, i - 1) + 1, NthMarker(s, i) - 1)

\* the bytes of one line: the line with its justify marker escaped, put
\* through the character codec and stored in the buffer
LineBytes(line) ==
  BufferFrom(encodeText(ReplaceFirst(line, << "~" >>, << "\\", "R" >>)).value)

\* the lines with exactly one 0x0A between consecutive lines
RECURSIVE Separated(_)
Separated(encs) ==
  IF Len(encs) = 1 THEN encs[1]
  ELSE encs[1] \o << 10 >> \o Separated(Tail(encs))

HasAttrPrefix(s) ==
  \E l \in { 0, 1 }, n \in 0..Len(s) :
    /\ l + n + 1 <= Len(s)
    /\ l = 1 => IsLetter(s[1])
    /\ \A i \in (l + 1)..(l + n) : IsDigit(s[i])
    /\ s[l + n + 1] = "^"

FirstCaret(s) ==
  CHOOSE c \in 1..Len(s) : s[c] = "^" /\ \A i \in 1..(c - 1) : s[i] # "^"

NamesKind(c) == c \in { "N", "n", "V", "v", "H", "h" }

KindNamed(c) ==
  CASE c \in { "N", "n" } -> "N"
    [] c \in { "V", "v" } -> "V"
    [] c \in { "H", "h" } -> "H"

DigitValue(c) == CHOOSE n \in 0..9 : Ascii[17 + n] = c

\* the number a run of decimal digits denotes
RECURSIVE DecimalValue(_)
DecimalValue(ds) ==
  IF ds = << >> THEN 0
  ELSE DigitValue(Head(ds)) * 10 ^ (Len(ds) - 1) + DecimalValue(Tail(ds))

C5_ToStringRoundTrip ==
  /\ (last.op = "toString" /\ ValidPage(last.recv)) =>
       \E n \in 1..3 :
         LET digits == SubSeq(last.out, 2, n + 1)
         IN /\ Len(last.out) = n + 2 + Len(last.recv.text)
            /\ last.out[1] = last.recv.animate
            /\ \A i \in 1..n : IsDigit(digits[i])
            /\ n > 1 => digits[1] # "0"
            /\ DecimalValue(digits) = last.recv.delay
            /\ last.out[n + 2] = "^"
            /\ SubSeq(last.out, n + 3, Len(last.out)) = last.recv.text
  /\ (last.op = "fromStr" /\ last.src # {} /\ \A p \in last.src : ValidPage(p)) =>
       page = last.src

\* the string of a valid Page whose fields equal one pair of defaults was
\* parsed again under another pair of defaults
C5_Witness ==
  /\ last.op = "fromStr"
  /\ last.src = { Page("N", 20, << "h" >>) }
  /\ last.string = << "N", "2", "0", "^", "h" >>
  /\ last.default_animate = "H"
  /\ last.default_delay = 7

\* C6: every Page that comes to exist through the Page constructor or
\* through Page.fromStr has an animation among NONE, VSCROLL, HSCROLL, a
\* delay in 0..255 and a text of encode-table characters, ~ and _; a call
\* that would build another Page fails and returns none.
C6_EveryPageValid ==
  last.op \in { "new Page", "fromStr" } => \A p \in page : ValidPage(p)

\* C7: Page.fromBytes fails with TruncatedFrame on fewer than 4 bytes, and
\* with UnknownAnimationByte on at least 4 bytes whose first byte is none of
\* 0x00, 0x1D, 0x2F; no Page is returned, and the length check comes first.
C7_FromBytesRejects ==
  last.op = "fromBytes" =>
    /\ Len(last.bytes) < 4 => (last.err = TruncatedFrame /\ page = {})
    /\ (Len(last.bytes) >= 4 /\ last.bytes[1] \notin { 0, 29, 47 }) =>
         (last.err = UnknownAnimationByte(last.bytes[1]) /\ page = {})

\* three bytes starting with an unknown animation byte were rejected as
\* truncated
C7_Witness ==
  /\ last.op = "fromBytes"
  /\ last.bytes = << 7, 0, 0 >>
  /\ last.err = TruncatedFrame
  /\ page = {}

\* C8: Page.fromBytes on at least 4 bytes with a recognized animation byte
\* and a fourth byte other than 0x00 fails with MalformedReservedByte, a
\* RangeError reporting the value at index 3, and with no other failure.
C8_ReservedByteError ==
  (/\ last.op = "fromBytes"
   /\ Len(last.bytes) >= 4
   /\ last.bytes[1] \in { 0, 29, 47 }
   /\ last.bytes[4] # 0) =>
    (last.err.class = "RangeError" /\ last.err = MalformedReservedByte(last.bytes[4]))

\* C9: PingMessage.fromBytes(bytes, address) succeeds exactly when bytes has
\* length 3 and starts with [address, 0x50]; every other input fails with
\* FrameMismatch; on success the third byte is kept, and toBytes() of the
\* result is the input.
C9_PingFromBytes ==
  /\ last.op = "PingMessage.fromBytes" =>
       LET b == last.bytes
           accepted == Len(b) = 3 /\ b[1] = last.address /\ b[2] = 80
       IN /\ accepted => /\ last.err = NoError
                         /\ msg = { [class |-> "PingMessage", unspecified_byte |-> b[3],
                                     address |-> last.address] }
          /\ ~accepted => /\ last.err \in FrameMismatch("PingMessage")
                          /\ msg = {}
  /\ (last.op = "PingMessage.toBytes" /\ last.parsed # {}) => last.parsed = { last.out }

\* a parsed keep-alive frame with a third byte other than 0x6F was
\* converted back to bytes
C9_Witness ==
  /\ last.op = "PingMessage.toBytes"
  /\ last.parsed = { << 1, 80, 82 >> }
  /\ last.out = << 1, 80, 82 >>

\* C10: ResponseMessage.fromBytes(bytes, address) succeeds exactly when bytes
\* has length 4, starts with [address, 0x52] and ends with 0x00; a wrong
\* length or marker fails with FrameMismatch, a right length and marker with
\* a non-zero fourth byte fails with MalformedReservedByte, and toBytes() of
\* the result is the input.
C10_ResponseFromBytes ==
  /\ last.op = "ResponseMessage.fromBytes" =>
       LET b == last.bytes
           framed == Len(b) = 4 /\ b[1] = last.address /\ b[2] = 82
       IN /\ (framed /\ b[4] = 0) =>
               /\ last.err = NoError
               /\ msg = { [class |-> "ResponseMessage", unspecified_byte |-> b[3],
                           address |-> last.address] }
          /\ ~framed => /\ last.err \in FrameMismatch("ResponseMessage")
                        /\ msg = {}
          /\ (framed /\ b[4] # 0) => /\ last.err = MalformedResponseReservedByte(b[4])
                                     /\ msg = {}
  /\ (last.op = "ResponseMessage.toBytes" /\ last.parsed # {}) => last.parsed = { last.out }

\* a parsed acknowledgement frame was converted back to bytes
C10_Witness ==
  /\ last.op = "ResponseMessage.toBytes"
  /\ last.parsed = { << 1, 82, 80, 0 >> }
  /\ last.out = << 1, 82, 80, 0 >>

\* the bytes encodeText produces for some permitted character
CanonicalBytes == { TEXT_ENCODING[c] : c \in PermittedChars }

\* C11: the encode and decode tables are inverse on the canonical set and
\* only there: decoding the encoding of a permitted character returns the
\* character, encoding the decoding of a byte that encode produces returns the
\* byte, and the bytes 0x98, 0xA4 and 0xA5 are never produced by encode,
\* although they decode to glyphs whose bytes are 0x97, 0xA3 and 0xA3.
C11_TablesInverse ==
  /\ (last.op = "decodeText" /\ last.src # {}) =>
       \A t \in last.src : \A i \in 1..Len(t) :
         t[i] \in PermittedChars => last.out[i] = t[i]
  /\ (last.op = "encodeText" /\ last.src # {} /\ last.err = NoError) =>
       \A b \in last.src : \A i \in 1..Len(b) :
         /\ b[i] \in CanonicalBytes => last.out[i] = b[i]
         /\ b[i] = 152 => last.out[i] = 151
         /\ b[i] \in { 164, 165 } => last.out[i] = 163
  /\ (last.op = "encodeText" /\ last.err = NoError) =>
       \A i \in 1..Len(last.out) : last.out[i] \notin { 152, 164, 165 }

\* the three alternate bytes were decoded and encoded back to the canonical
\* bytes of their glyphs
C11_Witness ==
  /\ last.op = "encodeText"
  /\ last.src = { << 152, 164, 82 >> }
  /\ last.text = << "U+2500", "U+2594", "R" >>
  /\ last.out = << 151, 163, 82 >>

\* C12: Page.decodeText is total: for every sequence of bytes in 0..255 it
\* returns, without failing, a text of the same length in which each byte of
\* the decode table gives its table character and every other byte gives
\* U+FFFD.
C12_DecodeTextTotal ==
  (last.op = "decodeText" /\ \A i \in 1..Len(last.bytes) : last.bytes[i] \in 0..255) =>
    /\ last.err = NoError
    /\ DOMAIN last.out = 1..Len(last.bytes)
    /\ \A i \in 1..Len(last.bytes) :
         last.out[i] = IF last.bytes[i] \in DOMAIN TEXT_DECODING
                       THEN TEXT_DECODING[last.bytes[i]] ELSE "U+FFFD"

\* a sequence with a mapped byte, an unmapped byte and an alternate byte was
\* decoded
C12_Witness ==
  /\ last.op = "decodeText"
  /\ last.bytes = << 82, 7, 152 >>
  /\ last.out = << "R", "U+FFFD", "U+2500" >>

\* the bytes of a text in which every line-advance marker is the separator
\* byte, every justify marker the two bytes of its escape and every other
\* character its byte of the encode table
RECURSIVE EscapedBody(_)
EscapedBody(text) ==
  IF text = << >> THEN << >>
  ELSE (CASE text[1] = "_" -> << 10 >>
          [] text[1] = "~" -> << 92, 82 >>
          [] OTHER -> << TEXT_ENCODING[text[1]] >>) \o EscapedBody(Tail(text))

\* C13: in Page.toBytes every justify marker of every line of the text is
\* emitted as the two bytes 0x5C 0x52, also when one line holds two or more
\* of them: the body has one such pair per marker and no byte standing for an
\* unescaped marker.
C13_EveryJustifyEscaped ==
  (last.op = "toBytes" /\ ValidPage(last.recv)) =>
    LET t == last.recv.text
        k == LeadingMarkers(t)
    IN /\ last.err = NoError
       /\ SubSeq(last.out, 5, Len(last.out)) = EscapedBody(SubSeq(t, k + 1, Len(t)))

\* a decoded line with every escape of the justify marker turned back into
\* the marker
RECURSIVE Unescaped(_)
Unescaped(s) ==
  IF s = << >> THEN << >>
  ELSE IF Len(s) >= 2 /\ s[1] = "\\" /\ s[2] = "R"
  THEN << "~" >> \o Unescaped(SubSeq(s, 3, Len(s)))
  ELSE << s[1] >> \o Unescaped(Tail(s))

\* C14: for every input Page.fromBytes accepts, the text of the Page is
\* offset copies of _ followed by the lines joined with _, where the lines
\* come from the body without its trailing 0x0A bytes, split on 0x0A, each
\* decoded and with the escape turned back into the justify marker; nothing
\* else is added to or removed from a line, also when its decoded text ends
\* in spaces.
C14_FromBytesText ==
  (last.op = "fromBytes" /\ last.err = NoError) =>
    LET lines == Split(RightTrim(SubSeq(last.bytes, 5, Len(last.bytes))), 10)
    IN \A p \in page :
         p.text = [ i \in 1..last.bytes[2] |-> "_" ] \o
                  Join([ i \in 1..Len(lines) |-> Unescaped(decodeText(lines[i])) ], "_")

\* C16: for every address and every byte sequence at most one of
\* PingMessage.fromBytes and ResponseMessage.fromBytes succeeds, and the two
\* markers for one address are never equal.
C16_ParsersExclusive ==
  last.op \in { "PingMessage.fromBytes", "ResponseMessage.fromBytes" } =>
    /\ ~(last.err = NoError /\ NoError \in last.before)
    /\ PingMessage_marker(last.address) # ResponseMessage_marker(last.address)

\* a frame that PingMessage.fromBytes accepted was handed to
\* ResponseMessage.fromBytes, which refused it
C16_Witness ==
  /\ last.op = "ResponseMessage.fromBytes"
  /\ last.before = { NoError }
  /\ last.err # NoError

\* C15: after any sequence of encodeText, decodeText, fromStr, toString,
\* toBytes, fromBytes and the frame operations, the character and animation
\* encode and decode tables equal their initial contents, and the animation,
\* delay and text of every existing Page equal the values it was constructed
\* with.
C15_NothingMutated ==
  /\ statics._TEXT_ENCODING = TEXT_ENCODING
  /\ statics._TEXT_DECODING = TEXT_DECODING
  /\ statics._ANIMATE_ENCODING = ANIMATE_ENCODING
  /\ statics._ANIMATE_DECODING = ANIMATE_DECODING
  /\ \A p \in page : \E m \in made :
       p.animate = m.animate /\ p.delay = m.delay /\ p.text = m.text
  /\ page = {} <=> made = {}

\* a Page with leading markers is held, a message is held, and the last of
\* the calls made since then is a character codec call
C15_Witness ==
  /\ \E p \in page : p.text = << "_", "~", "R" >>
  /\ made = page
  /\ msg # {}
  /\ last.op = "decodeText"
  /\ last.src # {}

====
